---- MODULE Spec2Model ----
(***************************************************************************)
(* A model of sdk/src/transaction/versioned/mod.rs: the versioned          *)
(* transaction (a list of signatures and one versioned message), its       *)
(* signing constructor try_new, its sanitization and its two verification  *)
(* entry points.                                                           *)
(*                                                                         *)
(* The message, the signer set, the signature scheme and the message hash  *)
(* are collaborators whose code lives in other modules of the sdk; they    *)
(* are modelled after their documented contracts (an idealised signature   *)
(* scheme: a signature verifies for exactly the key and the bytes it was    *)
(* made for).                                                              *)
(*                                                                         *)
(* Rust indexes are 0-based and are kept 0-based where the code computes   *)
(* them (position, get); TLA+ sequences are 1-based, so element i of a     *)
(* Vec is seq[i + 1].                                                      *)
(***************************************************************************)
EXTENDS Integers, Sequences, FiniteSets, TLC

\* ------------------------------------------------------------------ bounds
NumKeys == 2      \* distinct keypairs
MaxKeys == 2      \* static account keys of a message
MaxSigs == 2      \* signatures of a transaction built from parts
MaxSigners == 2   \* keypairs handed to try_new

\* ---------------------------------------------------------------- helpers
Min(a, b) == IF a < b THEN a ELSE b

SeqsUpTo(S, n) == UNION {[1..k -> S] : k \in 0..n}

Range(s) == {s[i] : i \in 1..Len(s)}

NoDuplicates(s) == \A i, j \in 1..Len(s) : s[i] = s[j] => i = j

Ok(v) == [ok |-> TRUE, err |-> "", val |-> v]

Err(e) == [ok |-> FALSE, err |-> e, val |-> <<>>]

\* Option<T>.
None == [some |-> FALSE, value |-> <<>>]

Some(v) == [some |-> TRUE, value |-> v]

\* ---------------------------------------------------- keys and signatures
Keypairs == 1..NumKeys

\* signer::Signer::pubkey: the public key of a keypair.
PubkeyOf(keypair) == 100 + keypair

Pubkeys == {PubkeyOf(kp) : kp \in Keypairs}

\* Signer::sign_message: the signature of `keypair` over `message_data`.
Sign(keypair, message_data) ==
    [signer |-> PubkeyOf(keypair), data |-> message_data, flipped |-> FALSE]

\* Signature::default(): 64 zero bytes, the signature of nothing.
DefaultSignature == [signer |-> 0, data |-> <<>>, flipped |-> FALSE]

\* One bit of a signature flipped.
FlipBit(signature) == [signature EXCEPT !.flipped = ~@]

\* Signature::verify(pubkey, message_bytes).
SignatureVerify(signature, pubkey, message_bytes) ==
    /\ signature.signer = pubkey
    /\ signature.data = message_bytes
    /\ ~signature.flipped

\* Signers::try_pubkeys for a slice of keypairs: one key per signer, in order.
try_pubkeys(keypairs) == [i \in 1..Len(keypairs) |-> PubkeyOf(keypairs[i])]

\* Signers::try_sign_message for a slice of keypairs: one signature per
\* signer, in the slice's order.
try_sign_message(keypairs, message_data) ==
    [i \in 1..Len(keypairs) |-> Sign(keypairs[i], message_data)]

\* ---------------------------------------------------------------- messages
\* message::legacy::Message, as far as this file reads it.
LegacyMessages ==
    [header : [num_required_signatures : 0..(MaxKeys + 1)],
     account_keys : SeqsUpTo(Pubkeys, MaxKeys)]

\* message::VersionedMessage: Legacy(message) or V0(message).
VersionedMessageLegacy(message) ==
    [shape |-> "Legacy", header |-> message.header,
     account_keys |-> message.account_keys]

VersionedMessageV0(message) ==
    [shape |-> "V0", header |-> message.header,
     account_keys |-> message.account_keys]

VersionedMessages ==
    {VersionedMessageLegacy(m) : m \in LegacyMessages}
        \cup {VersionedMessageV0(m) : m \in LegacyMessages}

\* The legacy message inside VersionedMessage::Legacy(message).
LegacyInner(message) ==
    [header |-> message.header, account_keys |-> message.account_keys]

\* VersionedMessage::static_account_keys.
static_account_keys(message) == message.account_keys

\* VersionedMessage::header.
header(message) == message.header

\* message::legacy::Message::serialize: the header, then the account keys
\* behind their count.
serialize_legacy(message) ==
    <<message.header.num_required_signatures>>
        \o <<Len(message.account_keys)>>
        \o message.account_keys

\* VersionedMessage::serialize: a legacy message serializes as itself, a
\* numbered message after its version prefix byte (0x80 | version).
serialize(message) ==
    IF message.shape = "Legacy"
    THEN serialize_legacy(LegacyInner(message))
    ELSE <<128>> \o serialize_legacy(LegacyInner(message))

\* VersionedMessage::hash_raw_message: a domain-separated hash of the bytes.
hash_raw_message(message_bytes) == <<"solana-tx-message-v1", message_bytes>>

\* ------------------------------------------------------------ transactions
\* struct VersionedTransaction { signatures, message }.
VersionedTransaction(signatures, message) ==
    [signatures |-> signatures, message |-> message]

\* #[derive(Default)]: no signatures, a default legacy message.
DefaultTransaction ==
    VersionedTransaction(<<>>,
        VersionedMessageLegacy([header |-> [num_required_signatures |-> 0],
                                account_keys |-> <<>>]))

\* struct Transaction { signatures, message } (the legacy transaction).
Transaction(signatures, message) ==
    [signatures |-> signatures, message |-> message]

\* The upgrade tagging the message as a numbered one.
From_numbered(transaction) ==
    VersionedTransaction(transaction.signatures,
                         VersionedMessageV0(transaction.message))

\* impl From<Transaction> for VersionedTransaction.
From(transaction) ==
    VersionedTransaction(transaction.signatures,
                         VersionedMessageLegacy(transaction.message))

\* ------------------------------------------------------------------ try_new
\* The count check with its two errors exchanged.
check_signer_count_swapped(signer_keys, expected_signer_keys) ==
    IF Len(signer_keys) > Len(expected_signer_keys) THEN Err("NotEnoughSigners")
    ELSE IF Len(signer_keys) < Len(expected_signer_keys)
         THEN Err("TooManySigners")
         ELSE Ok(<<>>)

\* signer_keys.len().cmp(&expected_signer_keys.len()), and the `?` after it.
check_signer_count(signer_keys, expected_signer_keys) ==
    IF Len(signer_keys) > Len(expected_signer_keys) THEN Err("TooManySigners")
    ELSE IF Len(signer_keys) < Len(expected_signer_keys)
         THEN Err("NotEnoughSigners")
         ELSE Ok(<<>>)

\* Iterator::position: the 0-based index of the first element equal to `key`.
position(keys, key) ==
    IF \E i \in 1..Len(keys) : keys[i] = key
    THEN Some((CHOOSE i \in 1..Len(keys) :
                  /\ keys[i] = key
                  /\ \A j \in 1..(i - 1) : keys[j] # key) - 1)
    ELSE None

\* The indexes taken in the order the signers were supplied.
signature_indexes_as_supplied(expected_signer_keys, signer_keys) ==
    IF \E i \in 1..Len(expected_signer_keys) :
           ~position(signer_keys, expected_signer_keys[i]).some
    THEN Err("KeypairPubkeyMismatch")
    ELSE Ok([i \in 1..Len(expected_signer_keys) |-> i - 1])

\* For each expected signer key, in the message's order, its position among
\* the supplied signer keys; KeypairPubkeyMismatch when one has none.
signature_indexes(expected_signer_keys, signer_keys) ==
    LET found == [i \in 1..Len(expected_signer_keys) |->
                     position(signer_keys, expected_signer_keys[i])]
    IN  IF \E i \in 1..Len(found) : ~found[i].some
        THEN Err("KeypairPubkeyMismatch")
        ELSE Ok([i \in 1..Len(found) |-> found[i].value])

\* The signatures returned as the signer set produced them.
ordered_signatures_unordered(indexes, unordered_signatures) ==
    Ok(unordered_signatures)

\* For each resolved index, unordered_signatures.get(index); "invalid
\* keypairs" when an index is out of range.
ordered_signatures(indexes, unordered_signatures) ==
    LET got == [i \in 1..Len(indexes) |->
                   IF indexes[i] < Len(unordered_signatures)
                   THEN Some(unordered_signatures[indexes[i] + 1])
                   ELSE None]
    IN  IF \E i \in 1..Len(got) : ~got[i].some
        THEN Err("InvalidInput(invalid keypairs)")
        ELSE Ok([i \in 1..Len(got) |-> got[i].value])

\* try_new without the comparison of the signer count: any signer set that
\* covers the required keys is accepted.
try_new_any_count(message, keypairs) ==
    LET keys == static_account_keys(message)
        num_required_signatures == header(message).num_required_signatures
    IN  IF Len(keys) < num_required_signatures
        THEN Err("InvalidInput(invalid message)")
        ELSE
        LET signer_keys == try_pubkeys(keypairs)
            expected_signer_keys == SubSeq(keys, 1, num_required_signatures)
            count == Ok(<<>>)
        IN  IF ~count.ok THEN count
            ELSE
            LET message_data == serialize(message)
                indexes == signature_indexes(expected_signer_keys, signer_keys)
            IN  IF ~indexes.ok THEN indexes
                ELSE
                LET unordered_signatures ==
                        try_sign_message(keypairs, message_data)
                    signatures ==
                        ordered_signatures(indexes.val, unordered_signatures)
                IN  IF ~signatures.ok THEN signatures
                    ELSE Ok(VersionedTransaction(signatures.val, message))

\* VersionedTransaction::try_new(message, keypairs).
try_new(message, keypairs) ==
    LET keys == static_account_keys(message)
        num_required_signatures == header(message).num_required_signatures
    IN  IF Len(keys) < num_required_signatures
        THEN Err("InvalidInput(invalid message)")
        ELSE
        LET signer_keys == try_pubkeys(keypairs)
            expected_signer_keys == SubSeq(keys, 1, num_required_signatures)
            count == check_signer_count(signer_keys, expected_signer_keys)
        IN  IF ~count.ok THEN count
            ELSE
            LET message_data == serialize(message)
                indexes == signature_indexes(expected_signer_keys, signer_keys)
            IN  IF ~indexes.ok THEN indexes
                ELSE
                LET unordered_signatures ==
                        try_sign_message(keypairs, message_data)
                    signatures ==
                        ordered_signatures(indexes.val, unordered_signatures)
                IN  IF ~signatures.ok THEN signatures
                    ELSE Ok(VersionedTransaction(signatures.val, message))

\* ----------------------------------------------------------------- sanitize
\* sanitize_signatures without its comparison against the static keys.
sanitize_signatures_counts_only(transaction) ==
    LET num_required_signatures ==
            header(transaction.message).num_required_signatures
    IN  IF num_required_signatures > Len(transaction.signatures)
        THEN Err("IndexOutOfBounds")
        ELSE IF num_required_signatures < Len(transaction.signatures)
        THEN Err("InvalidValue")
        ELSE Ok(<<>>)

\* VersionedTransaction::sanitize_signatures.
sanitize_signatures(transaction) ==
    LET num_required_signatures ==
            header(transaction.message).num_required_signatures
    IN  IF num_required_signatures > Len(transaction.signatures)
        THEN Err("IndexOutOfBounds")
        ELSE IF num_required_signatures < Len(transaction.signatures)
        THEN Err("InvalidValue")
        ELSE IF Len(transaction.signatures)
                    > Len(static_account_keys(transaction.message))
        THEN Err("IndexOutOfBounds")
        ELSE Ok(<<>>)

\* What VersionedMessage::sanitize may answer: the message's own structural
\* check is format-specific and opaque to this file.
MessageSanitizeResults ==
    {Ok(<<>>), Err("IndexOutOfBounds"), Err("ValueOutOfBounds")}

\* sanitize stopping after the message's own check.
sanitize_message_only(transaction, message_sanitize) == message_sanitize

\* VersionedTransaction::sanitize, given the answer of the message's check.
sanitize(transaction, message_sanitize) ==
    IF ~message_sanitize.ok THEN message_sanitize
    ELSE sanitize_signatures(transaction)

\* --------------------------------------------------- version and downgrade
LEGACY == [tag |-> "Legacy", number |-> 0]

Number(n) == [tag |-> "Number", number |-> n]

\* VersionedTransaction::version.
version(transaction) ==
    IF transaction.message.shape = "Legacy" THEN LEGACY ELSE Number(0)

\* VersionedTransaction::into_legacy_transaction.
into_legacy_transaction(transaction) ==
    IF transaction.message.shape = "Legacy"
    THEN Some(Transaction(transaction.signatures,
                          LegacyInner(transaction.message)))
    ELSE None

\* ------------------------------------------------------------- verification
\* Every signature checked against the first static account key.
_verify_with_results_first_key(transaction, message_bytes) ==
    [i \in 1..Min(Len(transaction.signatures),
                  Len(static_account_keys(transaction.message))) |->
        SignatureVerify(transaction.signatures[i],
                        static_account_keys(transaction.message)[1],
                        message_bytes)]

\* VersionedTransaction::_verify_with_results: signatures zipped with the
\* static account keys; zip stops at the shorter of the two.
_verify_with_results(transaction, message_bytes) ==
    [i \in 1..Min(Len(transaction.signatures),
                  Len(static_account_keys(transaction.message))) |->
        SignatureVerify(transaction.signatures[i],
                        static_account_keys(transaction.message)[i],
                        message_bytes)]

\* VersionedTransaction::verify_with_results.
verify_with_results(transaction) ==
    _verify_with_results(transaction, serialize(transaction.message))

\* verify_and_hash_message hashing the signatures along with the message.
verify_and_hash_message_with_signatures(transaction) ==
    LET message_bytes == serialize(transaction.message)
        results == _verify_with_results(transaction, message_bytes)
    IN  IF ~(\A i \in 1..Len(results) : results[i])
        THEN Err("SignatureFailure")
        ELSE Ok(hash_raw_message(<<transaction.signatures>> \o message_bytes))

\* verify_and_hash_message accepting a transaction one of whose signatures
\* verifies (any in place of all).
verify_and_hash_message_any(transaction) ==
    LET message_bytes == serialize(transaction.message)
        results == _verify_with_results(transaction, message_bytes)
    IN  IF Len(results) > 0 /\ ~(\E i \in 1..Len(results) : results[i])
        THEN Err("SignatureFailure")
        ELSE Ok(hash_raw_message(message_bytes))

\* VersionedTransaction::verify_and_hash_message.
verify_and_hash_message(transaction) ==
    LET message_bytes == serialize(transaction.message)
        results == _verify_with_results(transaction, message_bytes)
    IN  IF ~(\A i \in 1..Len(results) : results[i])
        THEN Err("SignatureFailure")
        ELSE Ok(hash_raw_message(message_bytes))

\* -------------------------------------------------------------------- state
VARIABLES
    tx,             \* the transaction under examination
    op,             \* the last operation: [name, arg]
    res,            \* what the last operation returned
    sanitized,      \* sanitize() has succeeded on tx since it was built
    signed_with,    \* the try_new call that built tx: message, keypairs, result
    reorder_of,     \* an earlier successful try_new on the same message
    upgraded_from,  \* the legacy transaction tx was upgraded from
    tampered,       \* the index of the signature changed, and the list before
    hashed          \* the hash of an earlier transaction of the same message

vars == <<tx, op, res, sanitized, signed_with, reorder_of, upgraded_from,
          tampered, hashed>>

Operation(name, arg) == [name |-> name, arg |-> arg]

NotSigned ==
    [called |-> FALSE, message |-> DefaultTransaction.message,
     keypairs |-> <<>>, result |-> Err("")]

NotReordered == [set |-> FALSE, keypairs |-> <<>>, signatures |-> <<>>]

NotTampered == [index |-> 0, original |-> <<>>]

\* The signatures a transaction read from the wire may carry for `message`:
\* any keypair's signature of it, or the default signature.
WireSignatures(message) ==
    {Sign(kp, serialize(message)) : kp \in Keypairs} \cup {DefaultSignature}

Init ==
    /\ tx = DefaultTransaction
    /\ op = Operation("default", <<>>)
    /\ res = Ok(<<>>)
    /\ sanitized = FALSE
    /\ signed_with = NotSigned
    /\ reorder_of = NotReordered
    /\ upgraded_from = None
    /\ tampered = NotTampered
    /\ hashed = None

\* ------------------------------------------------------------- constructors
\* VersionedTransaction { signatures, message }: the fields are public, and
\* deserialization builds a transaction from any parts.
FromParts ==
    /\ op.name = "default"
    /\ \E message \in VersionedMessages :
       \E signatures \in SeqsUpTo(WireSignatures(message), MaxSigs) :
        /\ tx' = VersionedTransaction(signatures, message)
        /\ op' = Operation("from_parts", <<>>)
        /\ res' = Ok(<<>>)
        /\ sanitized' = FALSE
        /\ signed_with' = NotSigned
        /\ reorder_of' = NotReordered
        /\ upgraded_from' = None
        /\ tampered' = NotTampered
        /\ hashed' = None

\* VersionedTransaction::from(legacy transaction).
Upgrade ==
    /\ op.name = "default"
    /\ \E message \in LegacyMessages :
       \E signatures \in
            SeqsUpTo(WireSignatures(VersionedMessageLegacy(message)), MaxSigs) :
        /\ tx' = From(Transaction(signatures, message))
        /\ op' = Operation("from", <<>>)
        /\ res' = Ok(<<>>)
        /\ sanitized' = FALSE
        /\ signed_with' = NotSigned
        /\ reorder_of' = NotReordered
        /\ upgraded_from' = Some(Transaction(signatures, message))
        /\ tampered' = NotTampered
        /\ hashed' = None

\* VersionedTransaction::try_new(message, &keypairs).
CallTryNew ==
    /\ op.name = "default"
    /\ \E message \in VersionedMessages :
       \E keypairs \in SeqsUpTo(Keypairs, MaxSigners) :
        LET result == try_new(message, keypairs)
        IN  /\ tx' = IF result.ok THEN result.val ELSE DefaultTransaction
            /\ op' = Operation("try_new", <<>>)
            /\ res' = result
            /\ sanitized' = FALSE
            /\ signed_with' = [called |-> TRUE, message |-> message,
                               keypairs |-> keypairs, result |-> result]
            /\ reorder_of' = NotReordered
            /\ upgraded_from' = None
            /\ tampered' = NotTampered
            /\ hashed' = None

\* try_new again on the same message, with the same signers supplied in
\* another order (or another multiplicity).
CallTryNewReordered ==
    /\ op.name = "try_new"
    /\ res.ok
    /\ ~reorder_of.set
    /\ \E keypairs \in SeqsUpTo(Keypairs, MaxSigners) :
        LET result == try_new(signed_with.message, keypairs)
        IN  /\ Range(keypairs) = Range(signed_with.keypairs)
            /\ tx' = IF result.ok THEN result.val ELSE DefaultTransaction
            /\ op' = Operation("try_new", <<>>)
            /\ res' = result
            /\ sanitized' = FALSE
            /\ signed_with' = [signed_with EXCEPT !.keypairs = keypairs,
                                                  !.result = result]
            /\ reorder_of' = [set |-> TRUE,
                              keypairs |-> signed_with.keypairs,
                              signatures |-> tx.signatures]
            /\ upgraded_from' = None
            /\ tampered' = NotTampered
            /\ hashed' = None

\* ---------------------------------------------------------------- operations
\* tx.sanitize(require_static_program_ids): the flag is handed to the
\* message's own check and read nowhere else; that check answers
\* message_sanitize.
CallSanitize ==
    \E message_sanitize \in MessageSanitizeResults :
        /\ op' = Operation("sanitize", message_sanitize)
        /\ res' = sanitize(tx, message_sanitize)
        /\ sanitized' = (sanitized \/ res'.ok)
        /\ UNCHANGED <<tx, signed_with, reorder_of, upgraded_from, tampered,
                       hashed>>

\* tx.sanitize_signatures().
CallSanitizeSignatures ==
    /\ op' = Operation("sanitize_signatures", <<>>)
    /\ res' = sanitize_signatures(tx)
    /\ UNCHANGED <<tx, sanitized, signed_with, reorder_of, upgraded_from,
                   tampered, hashed>>

\* tx.version().
CallVersion ==
    /\ op' = Operation("version", <<>>)
    /\ res' = Ok(version(tx))
    /\ UNCHANGED <<tx, sanitized, signed_with, reorder_of, upgraded_from,
                   tampered, hashed>>

\* tx.clone().into_legacy_transaction().
CallIntoLegacyTransaction ==
    /\ op' = Operation("into_legacy_transaction", <<>>)
    /\ res' = Ok(into_legacy_transaction(tx))
    /\ UNCHANGED <<tx, sanitized, signed_with, reorder_of, upgraded_from,
                   tampered, hashed>>

\* tx.verify_with_results().
CallVerifyWithResults ==
    /\ op' = Operation("verify_with_results", <<>>)
    /\ res' = Ok(verify_with_results(tx))
    /\ UNCHANGED <<tx, sanitized, signed_with, reorder_of, upgraded_from,
                   tampered, hashed>>

\* tx.verify_and_hash_message().
CallVerifyAndHashMessage ==
    /\ op' = Operation("verify_and_hash_message", <<>>)
    /\ res' = verify_and_hash_message(tx)
    /\ UNCHANGED <<tx, sanitized, signed_with, reorder_of, upgraded_from,
                   tampered, hashed>>

\* --------------------------------------------------------------- the caller
\* One signature of a transaction is replaced by a value that is not a
\* valid signature: a bit flipped, the default signature, or another
\* keypair's signature. The transaction is one whose signatures were all
\* reported to verify, each of them some keypair's signature of the message.
Tamper ==
    /\ tampered.index = 0
    /\ op.name = "verify_with_results"
    /\ \A i \in 1..Len(res.val) : res.val[i]
    /\ \A i \in 1..Len(tx.signatures) :
           \E keypair \in Keypairs :
               tx.signatures[i] = Sign(keypair, serialize(tx.message))
    /\ \E i \in 1..Len(tx.signatures) :
       \E forged \in WireSignatures(tx.message)
                        \cup {FlipBit(tx.signatures[i])} :
        /\ forged # tx.signatures[i]
        /\ i <= Len(static_account_keys(tx.message)) =>
              ~SignatureVerify(forged, static_account_keys(tx.message)[i],
                               serialize(tx.message))
        /\ i > Len(static_account_keys(tx.message)) =>
              \A pubkey \in Pubkeys :
                  ~SignatureVerify(forged, pubkey, serialize(tx.message))
        /\ tx' = [tx EXCEPT !.signatures[i] = forged]
        /\ tampered' = [index |-> i, original |-> tx.signatures]
        /\ op' = Operation("tamper", <<>>)
        /\ res' = Ok(<<>>)
        /\ sanitized' = FALSE
        /\ signed_with' = NotSigned
        /\ reorder_of' = NotReordered
        /\ upgraded_from' = None
        /\ hashed' = None

\* A second transaction of the same message, under another list of
\* signatures that all verify, once the first has been hashed; the first
\* transaction's hash is remembered.
Resign ==
    /\ op.name = "verify_and_hash_message"
    /\ res.ok
    /\ ~hashed.some
    /\ \E signatures \in SeqsUpTo(WireSignatures(tx.message), MaxSigs) :
        LET other == VersionedTransaction(signatures, tx.message)
        IN  /\ signatures # tx.signatures
            /\ \A i \in 1..Len(verify_with_results(other)) :
                   verify_with_results(other)[i]
            /\ tx' = other
            /\ op' = Operation("resign", <<>>)
            /\ res' = Ok(<<>>)
            /\ sanitized' = FALSE
            /\ signed_with' = NotSigned
            /\ reorder_of' = NotReordered
            /\ upgraded_from' = None
            /\ tampered' = NotTampered
            /\ hashed' = Some(res.val)

\* A transaction read from the wire: sanitized, verified, hashed; tampered
\* with or re-signed by whoever relays it.
Next ==
    \/ FromParts
    \/ CallSanitize
    \/ CallVerifyWithResults
    \/ CallVerifyAndHashMessage
    \/ Tamper
    \/ Resign

Spec == Init /\ [][Next]_vars

\* A transaction signed by try_new, then checked.
SignNext ==
    \/ CallTryNew
    \/ CallTryNewReordered
    \/ CallSanitizeSignatures
    \/ CallVerifyWithResults

SignSpec == Init /\ [][SignNext]_vars

\* A transaction of either message shape, asked for its version and for its
\* legacy form.
UpgradeNext ==
    \/ FromParts
    \/ Upgrade
    \/ CallVersion
    \/ CallIntoLegacyTransaction

UpgradeSpec == Init /\ [][UpgradeNext]_vars

\* ------------------------------------------------------------- the claims
\* What the formulas below read off the state.
Signatures == tx.signatures

StaticKeys == static_account_keys(tx.message)

NumRequired == header(tx.message).num_required_signatures

MessageBytes == serialize(tx.message)

AllTrue(results) == \A i \in 1..Len(results) : results[i]

\* The try_new call that built tx: its message's keys, header and required
\* prefix, and the public keys of the signers it was given.
SignedKeys == static_account_keys(signed_with.message)

SignedRequired == header(signed_with.message).num_required_signatures

SignedPrefix == SubSeq(SignedKeys, 1, SignedRequired)

SuppliedKeys == try_pubkeys(signed_with.keypairs)

\* S's public keys and the required-signer prefix are the same set.
SameKeySet ==
    /\ SignedRequired <= Len(SignedKeys)
    /\ Range(SuppliedKeys) = Range(SignedPrefix)

C2_OrderFromMessage ==
    (signed_with.called /\ signed_with.result.ok) =>
        /\ Len(Signatures) = SignedRequired
        /\ \A i \in 1..Len(Signatures) :
              /\ \E j \in 1..Len(signed_with.keypairs) :
                    /\ SuppliedKeys[j] = SignedKeys[i]
                    /\ Signatures[i] =
                         try_sign_message(signed_with.keypairs,
                                          serialize(signed_with.message))[j]
              /\ SignatureVerify(Signatures[i], SignedKeys[i],
                                 serialize(signed_with.message))
        /\ reorder_of.set => Signatures = reorder_of.signatures

\* try_new has succeeded twice on one message, the two signers supplied in
\* two different orders.
C2_Witness ==
    /\ reorder_of.set
    /\ signed_with.result.ok
    /\ reorder_of.keypairs # signed_with.keypairs
    /\ Len(Signatures) >= 2
    /\ Signatures[1] # Signatures[2]

\* C3, as stated: fewer signers than num_required_signatures fail with
\* NotEnoughSigners, more fail with TooManySigners, and as many whose keys
\* differ from the required-signer prefix as a set fail with
\* KeypairPubkeyMismatch.
C3_ErrorsByCount ==
    signed_with.called =>
        /\ Len(signed_with.keypairs) < SignedRequired =>
              signed_with.result = Err("NotEnoughSigners")
        /\ Len(signed_with.keypairs) > SignedRequired =>
              signed_with.result = Err("TooManySigners")
        /\ (Len(signed_with.keypairs) = SignedRequired
                /\ Range(SuppliedKeys)
                       # Range(SubSeq(SignedKeys, 1,
                                      Min(SignedRequired, Len(SignedKeys))))) =>
              signed_with.result = Err("KeypairPubkeyMismatch")

\* C3, amended: a message whose header requires more signatures than it has
\* static account keys fails with "invalid message" whatever the signers;
\* for any other message, fewer signers than num_required_signatures fail
\* with NotEnoughSigners, more fail with TooManySigners, and as many fail
\* with KeypairPubkeyMismatch when a key of the required-signer prefix is
\* not among the supplied keys, which is when the two key sets differ if
\* the prefix has no duplicate.
C3_ErrorsByCountOfValidMessage ==
    signed_with.called =>
        IF SignedRequired > Len(SignedKeys)
        THEN signed_with.result = Err("InvalidInput(invalid message)")
        ELSE
        /\ Len(signed_with.keypairs) < SignedRequired =>
              signed_with.result = Err("NotEnoughSigners")
        /\ Len(signed_with.keypairs) > SignedRequired =>
              signed_with.result = Err("TooManySigners")
        /\ (Len(signed_with.keypairs) = SignedRequired
                /\ ~(Range(SignedPrefix) \subseteq Range(SuppliedKeys))) =>
              signed_with.result = Err("KeypairPubkeyMismatch")
        /\ (Len(signed_with.keypairs) = SignedRequired
                /\ NoDuplicates(SignedPrefix)
                /\ Range(SuppliedKeys) # Range(SignedPrefix)) =>
              signed_with.result = Err("KeypairPubkeyMismatch")

\* As many signers as required, one of them supplied twice, rejected for
\* not covering the required keys.
C3_Witness ==
    /\ signed_with.called
    /\ SignedRequired <= Len(SignedKeys)
    /\ SignedRequired >= 2
    /\ Len(signed_with.keypairs) = SignedRequired
    /\ ~NoDuplicates(signed_with.keypairs)
    /\ NoDuplicates(SignedPrefix)
    /\ signed_with.result = Err("KeypairPubkeyMismatch")

\* C10: a transaction try_new returned passes sanitize_signatures (as many
\* signatures as required, no more than static account keys) and carries
\* the message it was given; when the static account keys have no
\* duplicate, the resolved indexes are a permutation of the supplied
\* signers' indexes and each supplied signer's signature is in the result
\* exactly once; and try_new never fails with "invalid keypairs".
C10_ReturnedTransactionIsWellFormed ==
    signed_with.called =>
        /\ signed_with.result # Err("InvalidInput(invalid keypairs)")
        /\ signed_with.result.ok =>
              /\ sanitize_signatures(tx) = Ok(<<>>)
              /\ op.name = "sanitize_signatures" => res = Ok(<<>>)
              /\ Len(Signatures) = NumRequired
              /\ Len(Signatures) <= Len(StaticKeys)
              /\ tx.message = signed_with.message
              /\ NoDuplicates(SignedKeys) =>
                    LET indexes ==
                            signature_indexes(SignedPrefix, SuppliedKeys).val
                        supplied ==
                            try_sign_message(signed_with.keypairs,
                                             serialize(signed_with.message))
                    IN  /\ Len(indexes) = Len(signed_with.keypairs)
                        /\ Range(indexes)
                             = {j - 1 : j \in 1..Len(signed_with.keypairs)}
                        /\ \A j \in 1..Len(supplied) :
                              Cardinality({i \in 1..Len(Signatures) :
                                  Signatures[i] = supplied[j]}) = 1

\* try_new has returned a transaction of two signers, its static account
\* keys without duplicate, and sanitize_signatures has been run on it.
C10_Witness ==
    /\ signed_with.called
    /\ signed_with.result.ok
    /\ NoDuplicates(SignedKeys)
    /\ Len(signed_with.keypairs) >= 2
    /\ SuppliedKeys # SignedPrefix
    /\ op.name = "sanitize_signatures"

\* C4: sanitize fails on every transaction whose signature count differs
\* from num_required_signatures, and on every transaction with more
\* signatures than static account keys; when the message's own check
\* passes, the error is IndexOutOfBounds for too few signatures,
\* InvalidValue for too many, and IndexOutOfBounds when the counts match
\* but the signatures outnumber the static account keys.
C4_SanitizeRejectsBadCounts ==
    op.name = "sanitize" =>
        /\ Len(Signatures) # NumRequired => ~res.ok
        /\ Len(Signatures) > Len(StaticKeys) => ~res.ok
        /\ op.arg.ok =>
              /\ Len(Signatures) < NumRequired =>
                    res = Err("IndexOutOfBounds")
              /\ Len(Signatures) > NumRequired => res = Err("InvalidValue")
              /\ (Len(Signatures) = NumRequired
                      /\ Len(Signatures) > Len(StaticKeys)) =>
                    res = Err("IndexOutOfBounds")

\* The message's own check has passed and the counts match, but the
\* signatures outnumber the static account keys: sanitize has answered
\* IndexOutOfBounds.
C4_Witness ==
    /\ op.name = "sanitize"
    /\ op.arg.ok
    /\ Len(Signatures) = NumRequired
    /\ Len(Signatures) > Len(StaticKeys)
    /\ res = Err("IndexOutOfBounds")

\* C5, as stated: verify_with_results returns one boolean per signature,
\* entry i being the check of signature i against static account key i
\* over the serialized message.
C5_OneResultPerSignature ==
    op.name = "verify_with_results" =>
        /\ Len(res.val) = Len(Signatures)
        /\ \A i \in 1..Len(Signatures) :
              res.val[i] = SignatureVerify(Signatures[i], StaticKeys[i],
                                           MessageBytes)

\* C5, amended: verify_with_results returns one boolean per signature that
\* has a static account key at its index (the shorter of the two lengths),
\* entry i being the check of signature i against static account key i
\* over the serialized message.
C5_OneResultPerSignatureWithKey ==
    op.name = "verify_with_results" =>
        /\ Len(res.val) = Min(Len(Signatures), Len(StaticKeys))
        /\ \A i \in 1..Min(Len(Signatures), Len(StaticKeys)) :
              res.val[i] = SignatureVerify(Signatures[i], StaticKeys[i],
                                           MessageBytes)

\* More signatures than static account keys, and a result all the same,
\* not all of whose entries agree.
C5_Witness ==
    /\ op.name = "verify_with_results"
    /\ Len(Signatures) > Len(StaticKeys)
    /\ Len(res.val) >= 1
    /\ ~res.val[1]
    /\ tampered.index = 0

\* C6: verify_and_hash_message fails with SignatureFailure when a
\* per-signature check is false, and otherwise returns the hash of the
\* serialized message; the hash depends on the message alone: two
\* transactions of one message under different signature lists that
\* verify get the same hash.
C6_HashOfMessageOnly ==
    op.name = "verify_and_hash_message" =>
        /\ (\E i \in 1..Min(Len(Signatures), Len(StaticKeys)) :
                ~SignatureVerify(Signatures[i], StaticKeys[i], MessageBytes))
              => res = Err("SignatureFailure")
        /\ (\A i \in 1..Min(Len(Signatures), Len(StaticKeys)) :
                SignatureVerify(Signatures[i], StaticKeys[i], MessageBytes))
              => res = Ok(hash_raw_message(MessageBytes))
        /\ (hashed.some /\ res.ok) => res.val = hashed.value

\* A second transaction of an already hashed message, under other
\* signatures one of which is checked, has been hashed.
C6_Witness ==
    /\ op.name = "verify_and_hash_message"
    /\ hashed.some
    /\ res.ok
    /\ Len(Signatures) >= 1
    /\ Len(StaticKeys) >= 1

\* C7, as stated: after one signature, at any index, of a transaction
\* whose signatures all verified is replaced by an invalid one,
\* verify_with_results reports false at that index and true elsewhere,
\* and verify_and_hash_message fails with SignatureFailure.
C7_TamperingDetected ==
    tampered.index # 0 =>
        /\ op.name = "verify_with_results" =>
              /\ tampered.index <= Len(res.val)
              /\ \A i \in 1..Len(res.val) :
                    res.val[i] = (i # tampered.index)
        /\ op.name = "verify_and_hash_message" =>
              res = Err("SignatureFailure")

\* C7, amended: after one signature, at an index below the number of
\* static account keys, of a transaction whose signatures all verified is
\* replaced by an invalid one, verify_with_results reports false at that
\* index and true elsewhere, and verify_and_hash_message fails with
\* SignatureFailure.
C7_TamperingDetectedWithinKeys ==
    (tampered.index # 0 /\ tampered.index <= Len(StaticKeys)) =>
        /\ op.name = "verify_with_results" =>
              /\ tampered.index <= Len(res.val)
              /\ Len(res.val) = Min(Len(tampered.original), Len(StaticKeys))
              /\ \A i \in 1..Len(res.val) :
                    res.val[i] = (i # tampered.index)
        /\ op.name = "verify_and_hash_message" =>
              res = Err("SignatureFailure")

\* The second of two verifying signatures has been replaced and the
\* transaction verified again.
C7_Witness ==
    /\ tampered.index = 2
    /\ Len(StaticKeys) >= 2
    /\ op.name = "verify_with_results"
    /\ res.val[1]

\* C9: once sanitize has succeeded on a transaction, verification is not
\* truncated: verify_with_results has num_required_signatures entries,
\* and verify_and_hash_message returns a hash only if every signature
\* below num_required_signatures verifies against the static account key
\* at its index.
C9_SanitizedIsFullyVerified ==
    sanitized =>
        /\ op.name = "verify_with_results" => Len(res.val) = NumRequired
        /\ (op.name = "verify_and_hash_message" /\ res.ok) =>
              \A i \in 1..NumRequired :
                  /\ i <= Len(Signatures)
                  /\ i <= Len(StaticKeys)
                  /\ SignatureVerify(Signatures[i], StaticKeys[i],
                                     MessageBytes)

\* A sanitized transaction of two required signers has been hashed.
C9_Witness ==
    /\ sanitized
    /\ NumRequired >= 2
    /\ op.name = "verify_and_hash_message"
    /\ res.ok

\* C9, the other half: without sanitize, verify_and_hash_message accepts a
\* transaction that requires signatures and carries none (this state
\* is reachable).
C9_UnsanitizedWithoutSignaturesAccepted ==
    /\ ~sanitized
    /\ NumRequired >= 1
    /\ Len(Signatures) = 0
    /\ op.name = "verify_and_hash_message"
    /\ res.ok

\* C9, the other half: without sanitize, verify_and_hash_message accepts a
\* transaction whose only invalid signature sits beyond the static account
\* keys (this state is reachable).
C9_UnsanitizedBeyondKeysAccepted ==
    /\ ~sanitized
    /\ tampered.index > Len(StaticKeys)
    /\ Len(StaticKeys) >= 1
    /\ \A pubkey \in Pubkeys :
           ~SignatureVerify(Signatures[tampered.index], pubkey, MessageBytes)
    /\ op.name = "verify_and_hash_message"
    /\ res.ok

\* C8: upgrading a legacy transaction keeps its signatures and its message,
\* which serializes as the legacy message does; the upgraded transaction's
\* version is the legacy tag and into_legacy_transaction gives the legacy
\* transaction back. For any transaction, version is the legacy tag exactly
\* when the message is legacy and Number(0) otherwise, and
\* into_legacy_transaction returns a transaction exactly when the message
\* is legacy.
C8_UpgradeRoundTrip ==
    /\ upgraded_from.some =>
          /\ Signatures = upgraded_from.value.signatures
          /\ tx.message.shape = "Legacy"
          /\ LegacyInner(tx.message) = upgraded_from.value.message
          /\ serialize(tx.message)
               = serialize_legacy(upgraded_from.value.message)
          /\ op.name = "version" => res.val = LEGACY
          /\ op.name = "into_legacy_transaction" =>
                res.val = Some(upgraded_from.value)
    /\ op.name = "version" =>
          /\ res.val = LEGACY <=> tx.message.shape = "Legacy"
          /\ tx.message.shape # "Legacy" => res.val = Number(0)
    /\ op.name = "into_legacy_transaction" =>
          /\ res.val.some <=> tx.message.shape = "Legacy"
          /\ res.val.some =>
                res.val.value =
                    Transaction(Signatures, LegacyInner(tx.message))

\* A signed legacy transaction has been upgraded and turned back.
C8_Witness ==
    /\ upgraded_from.some
    /\ Len(upgraded_from.value.signatures) >= 1
    /\ Len(upgraded_from.value.message.account_keys) >= 1
    /\ op.name = "into_legacy_transaction"
    /\ res.val.some

====
